---- MODULE Spec2Model ----
(***************************************************************************)
(* Model of main.py: the Superstore dashboard.  One run of the script is   *)
(* one request: load the dataset, derive the date features, load the       *)
(* artifact of the selected mode, select the model's input columns and,    *)
(* when the prediction button was pressed, predict and render.             *)
(*                                                                         *)
(* A table is [cols, rows]: cols the column names in order, rows a         *)
(* sequence of functions from column name to cell.  A cell is              *)
(* [kind, body]: "text" (body = the characters), "date" (body = <<y,m,d>>),*)
(* "num" (body = <<p, q>>, the number p/q in lowest terms, q in {1, 2}) or *)
(* "missing" (NaN / NaT, body = <<>>).                                     *)
(***************************************************************************)
EXTENDS Integers, Sequences, FiniteSets, TLC

VARIABLES
    pc,           \* position of the script run
    disk,         \* the file at csv_path and the bundle at the mode's pkl path
    mode,         \* sidebar radio
    clicked,      \* the prediction button was pressed to start this run
    df_raw,       \* load_dataset's result
    df_enriched,  \* add_feature_engineering's result
    artifact,     \* drop_cols and target_col read from the bundle
    X_for_model,  \* prepare_features' result shown in the expander
    X_pred,       \* prepare_features' result passed to the predictor
    preds,        \* what the predictor returned
    out,          \* the output table
    screen,       \* what the page shows: errors and the rendered output
    steps         \* the steps this run has executed, in order

vars == <<pc, disk, mode, clicked, df_raw, df_enriched, artifact,
          X_for_model, X_pred, preds, out, screen, steps>>

----------------------------------------------------------------------------
(* Bounds *)

\* rows of a table given to add_feature_engineering on its own
MaxRows == 4
\* rows of a dataset in a whole run of the script
MaxRunRows == 2

----------------------------------------------------------------------------
(* Cells *)

Text(chars) == [kind |-> "text", body |-> chars]
Date(ymd)   == [kind |-> "date", body |-> ymd]
Missing     == [kind |-> "missing", body |-> <<>>]
Num(n)      == [kind |-> "num", body |-> <<n, 1>>]
\* (a + b) / 2 as a number in lowest terms
HalfSum(a, b) ==
    IF (a + b) % 2 = 0
    THEN [kind |-> "num", body |-> <<(a + b) \div 2, 1>>]
    ELSE [kind |-> "num", body |-> <<a + b, 2>>]

isna(c) == c.kind = "missing"

NoTable == [cols |-> <<>>, rows |-> <<>>]

Range(s) == {s[i] : i \in 1..Len(s)}

----------------------------------------------------------------------------
(* Calendar: what pandas' Timestamp does for year, month and the day       *)
(* difference of two dates.                                                *)

IsLeap(y) == (y % 4 = 0 /\ y % 100 # 0) \/ y % 400 = 0

DaysInMonth(y, m) ==
    IF m = 2 THEN (IF IsLeap(y) THEN 29 ELSE 28)
    ELSE IF m \in {4, 6, 9, 11} THEN 30 ELSE 31

RECURSIVE DaysBeforeMonth(_, _)
DaysBeforeMonth(y, m) ==
    IF m = 1 THEN 0 ELSE DaysBeforeMonth(y, m - 1) + DaysInMonth(y, m - 1)

\* days from 0001-01-01 to the date
Ordinal(ymd) ==
    LET y == ymd[1] - 1
    IN  365 * y + (y \div 4) - (y \div 100) + (y \div 400)
        + DaysBeforeMonth(ymd[1], ymd[2]) + ymd[3]

\* day and month read in the other order
to_datetimeDayFirst(c) ==
    IF /\ c.kind = "text"
       /\ Len(c.body) = 3
       /\ c.body[3] \in 1..12
       /\ c.body[2] \in 1..DaysInMonth(c.body[1], c.body[3])
    THEN Date(<<c.body[1], c.body[3], c.body[2]>>)
    ELSE IF c.kind = "date" THEN c ELSE Missing

\* pd.to_datetime(..., errors="coerce") on one cell: a text that spells a
\* calendar date becomes that date, every other cell becomes NaT.
to_datetime(c) ==
    IF /\ c.kind = "text"
       /\ Len(c.body) = 3
       /\ c.body[2] \in 1..12
       /\ c.body[3] \in 1..DaysInMonth(c.body[1], c.body[2])
    THEN Date(c.body)
    ELSE IF c.kind = "date" THEN c ELSE Missing

dt_year(c)  == IF c.kind = "date" THEN Num(c.body[1]) ELSE Missing
dt_month(c) == IF c.kind = "date" THEN Num(c.body[2]) ELSE Missing
\* (ship - order).dt.days
dt_days(ship, order) ==
    IF ship.kind = "date" /\ order.kind = "date"
    THEN Num(Ordinal(ship.body) - Ordinal(order.body))
    ELSE Missing

\* the same on whole columns
ToDatetime(col) == [i \in 1..Len(col) |-> to_datetime(col[i])]
DtYear(col)     == [i \in 1..Len(col) |-> dt_year(col[i])]
DtMonth(col)    == [i \in 1..Len(col) |-> dt_month(col[i])]
DtDays(ship, order) == [i \in 1..Len(ship) |-> dt_days(ship[i], order[i])]

----------------------------------------------------------------------------
(* DataFrame operations *)

NRows(t) == Len(t.rows)

Column(t, name) == [i \in 1..NRows(t) |-> t.rows[i][name]]

\* a new column is inserted as the first column instead of the last
SetColumnFirst(t, name, values) ==
    [cols |-> IF name \in Range(t.cols) THEN t.cols ELSE <<name>> \o t.cols,
     rows |-> [i \in 1..NRows(t) |->
                 [c \in DOMAIN t.rows[i] \cup {name} |->
                    IF c = name THEN values[i] ELSE t.rows[i][c]]]]

\* df[name] = values: an existing column is overwritten in place, a new one
\* is appended as the last column.
SetColumn(t, name, values) ==
    [cols |-> IF name \in Range(t.cols) THEN t.cols ELSE Append(t.cols, name),
     rows |-> [i \in 1..NRows(t) |->
                 [c \in DOMAIN t.rows[i] \cup {name} |->
                    IF c = name THEN values[i] ELSE t.rows[i][c]]]]

\* df.drop(columns=[name])
DropColumn(t, name) ==
    [cols |-> SelectSeq(t.cols, LAMBDA c : c # name),
     rows |-> [i \in 1..NRows(t) |->
                 [c \in DOMAIN t.rows[i] \ {name} |-> t.rows[i][c]]]]

\* Series.median(): NaN is skipped; the middle value of the sorted values, or
\* the mean of the two middle ones; NaN when nothing is left.
RECURSIVE SortInts(_)
SortInts(s) ==
    IF Len(s) = 0 THEN <<>>
    ELSE LET k == CHOOSE i \in 1..Len(s) : \A j \in 1..Len(s) : s[i] <= s[j]
         IN  <<s[k]>> \o SortInts([i \in 1..(Len(s) - 1) |->
                                     IF i < k THEN s[i] ELSE s[i + 1]])

\* the integer values of an all-integer numeric column, NaN skipped
IntValues(col) ==
    LET kept == SelectSeq(col, LAMBDA c : ~isna(c))
    IN  [i \in 1..Len(kept) |-> kept[i].body[1]]

\* the midpoint of the smallest and the largest value instead of the median
medianMidrange(col) ==
    LET v == IntValues(col)
    IN  IF Len(v) = 0 THEN Missing
        ELSE HalfSum(SortInts(v)[1], SortInts(v)[Len(v)])

median(col) ==
    LET s == SortInts(IntValues(col))
        n == Len(s)
    IN  IF n = 0 THEN Missing
        ELSE IF n % 2 = 1 THEN Num(s[(n + 1) \div 2])
        ELSE HalfSum(s[n \div 2], s[n \div 2 + 1])

\* Series.fillna(value): fillna(NaN) leaves the column as it is
fillna(col, value) == [i \in 1..Len(col) |-> IF isna(col[i]) THEN value ELSE col[i]]

----------------------------------------------------------------------------
(* Text encodings: a file's text is bytes; decoding gives code points.     *)

\* Latin-1 maps every byte to the code point of the same number: it never
\* fails.
DecodeLatin1(bytes) == [ok |-> TRUE, chars |-> bytes]

\* UTF-8, for code points below U+0800: a byte below 0x80 is itself, a lead
\* byte 0xC2..0xDF takes one continuation byte 0x80..0xBF, anything else is
\* a decoding error.
RECURSIVE DecodeUtf8(_)
DecodeUtf8(bytes) ==
    IF Len(bytes) = 0 THEN [ok |-> TRUE, chars |-> <<>>]
    ELSE IF bytes[1] < 128
    THEN LET rest == DecodeUtf8(Tail(bytes))
         IN  [ok |-> rest.ok, chars |-> <<bytes[1]>> \o rest.chars]
    ELSE IF /\ bytes[1] \in 194..223
            /\ Len(bytes) >= 2
            /\ bytes[2] \in 128..191
    THEN LET rest == DecodeUtf8(Tail(Tail(bytes)))
         IN  [ok |-> rest.ok,
              chars |-> <<(bytes[1] - 192) * 64 + (bytes[2] - 128)>> \o rest.chars]
    ELSE [ok |-> FALSE, chars |-> <<>>]

Decode(encoding, bytes) ==
    IF encoding = "latin1" THEN DecodeLatin1(bytes) ELSE DecodeUtf8(bytes)

----------------------------------------------------------------------------
(* The files the model reads.  A CSV file is [exists, wellformed, header,  *)
(* dates, payload]: dates[i] is row i's pair of date fields <<Order Date,  *)
(* Ship Date>> (ASCII, the same under either encoding; an empty field is   *)
(* read as NaN), payload is the bytes of every other field, which the      *)
(* file follows with the field's row and column number.  A file that is    *)
(* not wellformed is one the CSV parser rejects under every encoding.      *)

D(y, m, d) == Text(<<y, m, d>>)

DatePairs ==
    { <<D(2023, 1, 5),  D(2023, 1, 10)>>,     \* 5 days
      <<D(2023, 2, 1),  D(2023, 2, 3)>>,      \* 2 days
      <<D(2023, 3, 15), Missing>>,            \* Ship Date empty
      <<D(2023, 2, 30), D(2024, 3, 1)>>,      \* Order Date is no date
      <<D(2024, 2, 28), D(2024, 3, 1)>>,      \* 2 days, over 29 February
      <<D(2023, 12, 30), Text(<<110, 97>>)>> }\* Ship Date is "na"

Headers ==
    { <<"Row ID", "Order Date", "Ship Date", "Segment", "Sales">>,
      <<"Ship Date", "Order Date">>,
      <<"ShipDays", "Order Date", "OrderYear", "Ship Date">>,
      <<"Predicted Sales", "Order Date", "Ship Date", "Sales", "Predicted Segment">>,
      <<"Order Date", "Segment">>,
      <<"Ship Date", "Sales">>,
      <<"Segment", "Sales">> }

Payloads ==
    { <<65>>,          \* "A": the same text under both encodings
      <<195, 169>>,    \* U+00E9 in UTF-8
      <<233>> }        \* U+00E9 in Latin-1, not valid UTF-8

needed_cols == {"Order Date", "Ship Date"}

RowSeqs(S, max) == UNION {[1..n -> S] : n \in 0..max}

NoFile ==
    [exists |-> FALSE, wellformed |-> FALSE, header |-> <<>>, dates |-> <<>>,
     payload |-> <<>>]

FilesUpTo(max) ==
    {NoFile}
    \cup { [exists |-> TRUE, wellformed |-> FALSE, header |-> <<>>,
            dates |-> <<>>, payload |-> p] : p \in Payloads }
    \cup { [exists |-> TRUE, wellformed |-> TRUE, header |-> h, dates |-> r,
            payload |-> p] :
             h \in {h \in Headers : needed_cols \subseteq Range(h)},
             r \in RowSeqs(DatePairs, max), p \in Payloads }
    \cup { [exists |-> TRUE, wellformed |-> TRUE, header |-> h, dates |-> r,
            payload |-> p] :
             h \in {h \in Headers : ~(needed_cols \subseteq Range(h))},
             r \in RowSeqs({<<D(2023, 1, 5), D(2023, 1, 10)>>}, max), p \in Payloads }

Files == FilesUpTo(MaxRunRows)

\* pd.read_csv(p, encoding=...): the table of a file, or an error
read_csv(file, encoding) ==
    LET text == Decode(encoding, file.payload)
    IN  IF ~file.wellformed \/ ~text.ok
        THEN [ok |-> FALSE, table |-> NoTable]
        ELSE [ok |-> TRUE,
              table |->
                [cols |-> file.header,
                 rows |-> [i \in 1..Len(file.dates) |->
                    [c \in Range(file.header) |->
                       IF c = "Order Date" THEN file.dates[i][1]
                       ELSE IF c = "Ship Date" THEN file.dates[i][2]
                       ELSE Text(text.chars \o
                              <<i, CHOOSE j \in 1..Len(file.header) :
                                      file.header[j] = c>>)]]]]

\* load_dataset(csv_path)
load_dataset(file) ==
    IF ~file.exists
    THEN [ok |-> FALSE, table |-> NoTable]
    ELSE IF read_csv(file, "latin1").ok
    THEN read_csv(file, "latin1")
    ELSE read_csv(file, "utf-8")

----------------------------------------------------------------------------
(* Feature engineering *)

\* the message names every required column, not only the missing ones
MissingColsAll(df) == needed_cols

\* missing = needed_cols - set(df.columns)
MissingCols(df) == needed_cols \ Range(df.cols)

add_feature_engineering(df) ==
    IF ~(needed_cols \subseteq Range(df.cols))
    THEN [ok |-> FALSE, table |-> NoTable, missing |-> MissingCols(df)]
    ELSE
      LET d1 == SetColumn(df, "Order Date", ToDatetime(Column(df, "Order Date")))
          d2 == SetColumn(d1, "Ship Date", ToDatetime(Column(d1, "Ship Date")))
          d3 == SetColumn(d2, "OrderYear", DtYear(Column(d2, "Order Date")))
          d4 == SetColumn(d3, "OrderMonth", DtMonth(Column(d3, "Order Date")))
          d5 == SetColumn(d4, "ShipDays",
                    DtDays(Column(d4, "Ship Date"), Column(d4, "Order Date")))
          d6 == IF \E i \in 1..NRows(d5) : isna(Column(d5, "ShipDays")[i])
                THEN SetColumn(d5, "ShipDays",
                         fillna(Column(d5, "ShipDays"), median(Column(d5, "ShipDays"))))
                ELSE d5
      IN  [ok |-> TRUE, table |-> d6, missing |-> {}]

\* the loop stops at the first name that is not a column
DropEachUntilAbsent(df, drop_cols) ==
    LET RECURSIVE Go(_, _)
        Go(t, d) == IF Len(d) = 0 \/ Head(d) \notin Range(t.cols) THEN t
                    ELSE Go(DropColumn(t, Head(d)), Tail(d))
    IN  Go(df, drop_cols)

\* the loop of prepare_features over drop_cols
RECURSIVE DropEach(_, _)
DropEach(df, drop_cols) ==
    IF Len(drop_cols) = 0 THEN df
    ELSE DropEach(IF Head(drop_cols) \in Range(df.cols)
                  THEN DropColumn(df, Head(drop_cols))
                  ELSE df,
                  Tail(drop_cols))

prepare_features(df_enriched_, drop_cols, target_col) ==
    LET df == DropEach(df_enriched_, drop_cols)
    IN  IF target_col \in Range(df.cols) THEN DropColumn(df, target_col) ELSE df

----------------------------------------------------------------------------
(* Model artifacts.  A bundle on disk is [readable, keys, drop_cols,       *)
(* target_col]; the predictor itself is opaque and is modelled by what it  *)
(* returns (see Predict).                                                  *)

AllKeys == {"model", "drop_cols", "target_col"}

Bundle(r, k, d, t) == [readable |-> r, keys |-> k, drop_cols |-> d, target_col |-> t]

Bundles ==
    { Bundle(TRUE, AllKeys, <<"Row ID", "Segment">>, "Segment"),
      Bundle(TRUE, AllKeys, <<>>, "Sales"),
      Bundle(TRUE, AllKeys, <<"Customer ID", "Row ID", "Row ID">>, "Profit"),
      Bundle(TRUE, AllKeys, <<"Order Date", "Ship Date", "OrderYear">>, "Sales"),
      Bundle(FALSE, {}, <<>>, ""),
      Bundle(TRUE, {"model", "drop_cols"}, <<"Row ID">>, "") }

NoArtifact == [drop_cols |-> <<>>, target_col |-> ""]

\* load_artifact(path) and the three subscripts that follow it
load_artifact(bundle) ==
    IF bundle.readable /\ AllKeys \subseteq bundle.keys
    THEN [ok |-> TRUE,
          artifact |-> [drop_cols |-> bundle.drop_cols,
                        target_col |-> bundle.target_col]]
    ELSE [ok |-> FALSE, artifact |-> NoArtifact]

Modes == {"Klasifikasi Segment", "Regresi Sales"}

\* f"Predicted {target_reg}", tabulated over the target names of Bundles
PredictedOf(target_col) ==
    CASE target_col = "Sales"   -> "Predicted Sales"
      [] target_col = "Segment" -> "Predicted Segment"
      [] target_col = "Profit"  -> "Predicted Profit"
      [] OTHER                  -> "Predicted "

\* the name of the prediction column in each mode
PredictedColumn(m, target_col) ==
    IF m = "Klasifikasi Segment" THEN "Predicted Segment" ELSE PredictedOf(target_col)

\* the i-th scalar a predictor returns
Pred(i) == Num(i - 1)

----------------------------------------------------------------------------
(* The script run *)

NoScreen == [error |-> "", missing |-> {}, output |-> NoTable]

Init ==
    /\ pc = "start"
    /\ disk = NoFile
    /\ mode \in Modes
    /\ clicked = FALSE
    /\ df_raw = NoTable
    /\ df_enriched = NoTable
    /\ artifact = NoArtifact
    /\ X_for_model = NoTable
    /\ X_pred = NoTable
    /\ preds = <<>>
    /\ out = NoTable
    /\ screen = NoScreen
    /\ steps = <<>>

\* st.error(...) without the st.stop() after it: the script goes on
StopMissing(kind, missing) ==
    /\ pc' = "loaded"
    /\ screen' = [screen EXCEPT !.error = kind, !.missing = missing]

\* st.error(...) followed by st.stop()
Stop(kind, missing) ==
    /\ pc' = "stopped"
    /\ screen' = [screen EXCEPT !.error = kind, !.missing = missing]

\* lines 93-98
LoadDataset ==
    /\ pc = "start"
    /\ \E file \in Files :
         LET r == load_dataset(file)
         IN  /\ disk' = file
             /\ steps' = Append(steps, "load_dataset")
             /\ IF r.ok
                THEN /\ df_raw' = r.table
                     /\ pc' = "loaded"
                     /\ UNCHANGED screen
                ELSE /\ Stop("Gagal load dataset", {})
                     /\ UNCHANGED df_raw
    /\ UNCHANGED <<mode, clicked, df_enriched, artifact, X_for_model, X_pred,
                   preds, out>>

\* lines 125-136
Enrich ==
    /\ pc = "loaded"
    /\ steps' = Append(steps, "add_feature_engineering")
    /\ LET r == add_feature_engineering(df_raw)
       IN  IF r.ok
           THEN /\ df_enriched' = r.table
                /\ pc' = "enriched"
                /\ UNCHANGED screen
           ELSE /\ Stop("Feature engineering gagal", r.missing)
                /\ UNCHANGED df_enriched
    /\ UNCHANGED <<disk, mode, clicked, df_raw, artifact, X_for_model, X_pred,
                   preds, out>>

\* lines 145-153 and 198-206
LoadArtifact ==
    /\ pc = "enriched"
    /\ steps' = Append(steps, "load_artifact")
    /\ \E bundle \in Bundles :
         LET r == load_artifact(bundle)
         IN  IF r.ok
             THEN /\ artifact' = r.artifact
                  /\ pc' = "artifact"
                  /\ UNCHANGED screen
             ELSE /\ Stop("Gagal load PKL", {})
                  /\ UNCHANGED artifact
    /\ UNCHANGED <<disk, mode, clicked, df_raw, df_enriched, X_for_model,
                   X_pred, preds, out>>

\* lines 155-158 and 210-213: the expander that lists the input columns
ShowInputs ==
    /\ pc = "artifact"
    /\ X_for_model' = prepare_features(df_enriched, artifact.drop_cols,
                                       artifact.target_col)
    /\ pc' = "button"
    /\ UNCHANGED <<disk, mode, clicked, df_raw, df_enriched, artifact, X_pred,
                   preds, out, screen, steps>>

\* lines 160 and 215: st.button is False unless the click started this run
NotClicked ==
    /\ pc = "button"
    /\ ~clicked
    /\ pc' = "waiting"
    /\ UNCHANGED <<disk, mode, clicked, df_raw, df_enriched, artifact,
                   X_for_model, X_pred, preds, out, screen, steps>>

\* lines 162 and 217
SelectInputs ==
    /\ pc = "button"
    /\ clicked
    /\ X_pred' = prepare_features(df_enriched, artifact.drop_cols,
                                  artifact.target_col)
    /\ steps' = Append(steps, "prepare_features")
    /\ pc' = "predict"
    /\ UNCHANGED <<disk, mode, clicked, df_raw, df_enriched, artifact,
                   X_for_model, preds, out, screen>>

\* the except clauses at lines 188-189 and 243-244
PredictionError ==
    /\ pc' = "done"
    /\ screen' = [screen EXCEPT !.error = "Error saat prediksi"]

\* lines 163 and 218: the predictor raises, or returns k scalars
Predict ==
    /\ pc = "predict"
    /\ steps' = Append(steps, "predict")
    /\ \/ /\ PredictionError
          /\ UNCHANGED preds
       \/ \E k \in 0..(MaxRunRows + 1) :
            /\ preds' = [i \in 1..k |-> Pred(i)]
            /\ pc' = "assign"
            /\ UNCHANGED screen
    /\ UNCHANGED <<disk, mode, clicked, df_raw, df_enriched, artifact,
                   X_for_model, X_pred, out>>

\* the predictions are aligned to the rows like a Series: short ones are
\* padded with NaN, long ones cut, and nothing is raised
AssignPredictionsAligned(df, name, values) ==
    [ok |-> TRUE,
     table |-> SetColumn(df, name,
                  [i \in 1..NRows(df) |->
                     IF i <= Len(values) THEN values[i] ELSE Missing])]

\* out[name] = preds raises ValueError when the lengths differ
AssignPredictions(df, name, values) ==
    IF Len(values) # NRows(df)
    THEN [ok |-> FALSE, table |-> NoTable]
    ELSE [ok |-> TRUE, table |-> SetColumn(df, name, values)]

\* the table the predictions are attached to is the enriched one
OutputBaseEnriched == df_enriched

\* out = df_raw.copy()
OutputBase == df_raw

\* lines 165-166 and 220-221
BuildOutput ==
    /\ pc = "assign"
    /\ LET r == AssignPredictions(OutputBase,
                    PredictedColumn(mode, artifact.target_col), preds)
       IN  IF r.ok
           THEN /\ out' = r.table
                /\ pc' = "render"
                /\ UNCHANGED screen
           ELSE /\ PredictionError
                /\ UNCHANGED out
    /\ UNCHANGED <<disk, mode, clicked, df_raw, df_enriched, artifact,
                   X_for_model, X_pred, preds, steps>>

\* lines 168-187 and 223-242: summary, preview and download of out
Render ==
    /\ pc = "render"
    /\ screen' = [screen EXCEPT !.output = out]
    /\ steps' = Append(steps, "render")
    /\ pc' = "done"
    /\ UNCHANGED <<disk, mode, clicked, df_raw, df_enriched, artifact,
                   X_for_model, X_pred, preds, out>>

\* The next run of the script.  A click reruns it with the widgets as they
\* are, and only a run that rendered the button can be followed by a click;
\* any other widget change reruns it with the button unpressed.
Rerun ==
    /\ pc \in {"stopped", "waiting", "done"}
    /\ \E c \in BOOLEAN, m \in Modes :
         /\ c => (pc \in {"waiting", "done"} /\ m = mode)
         /\ clicked' = c
         /\ mode' = m
    /\ pc' = "start"
    /\ disk' = NoFile
    /\ df_raw' = NoTable
    /\ df_enriched' = NoTable
    /\ artifact' = NoArtifact
    /\ X_for_model' = NoTable
    /\ X_pred' = NoTable
    /\ preds' = <<>>
    /\ out' = NoTable
    /\ screen' = NoScreen
    /\ steps' = <<>>

Next ==
    \/ LoadDataset
    \/ Enrich
    \/ LoadArtifact
    \/ ShowInputs
    \/ NotClicked
    \/ SelectInputs
    \/ Predict
    \/ BuildOutput
    \/ Render
    \/ Rerun

Spec == Init /\ [][Next]_vars

----------------------------------------------------------------------------
(* add_feature_engineering on its own: every table load_dataset can return *)
(* for a file of up to MaxRows rows, and the one step that enriches it.    *)

InitEnrich ==
    /\ pc = "loaded"
    /\ disk \in {f \in FilesUpTo(MaxRows) : load_dataset(f).ok}
    /\ df_raw = load_dataset(disk).table
    /\ mode = "Klasifikasi Segment"
    /\ clicked = FALSE
    /\ df_enriched = NoTable
    /\ artifact = NoArtifact
    /\ X_for_model = NoTable
    /\ X_pred = NoTable
    /\ preds = <<>>
    /\ out = NoTable
    /\ screen = NoScreen
    /\ steps = <<"load_dataset">>

SpecEnrich == InitEnrich /\ [][Enrich]_vars

----------------------------------------------------------------------------
(* Where a run stands *)

Did(step) == step \in Range(steps)

EnrichFailed ==
    /\ pc = "stopped"
    /\ Len(steps) > 0
    /\ steps[Len(steps)] = "add_feature_engineering"

EnrichReturned == Did("add_feature_engineering") /\ ~EnrichFailed

DerivedCols == <<"OrderYear", "OrderMonth", "ShipDays">>

\* row i's ShipDays can be computed: both raw date fields parse
Computable(i) ==
    /\ df_enriched.rows[i]["Order Date"].kind = "date"
    /\ df_enriched.rows[i]["Ship Date"].kind = "date"

----------------------------------------------------------------------------
(* C1 *)

\* C1 as stated: the enriched table has the input's rows and its columns are
\* the input columns followed by OrderYear, OrderMonth, ShipDays.
C1_AsStated ==
    EnrichReturned =>
        /\ NRows(df_enriched) = NRows(df_raw)
        /\ df_enriched.cols = df_raw.cols \o DerivedCols

\* C1, amended: the enriched table has exactly the input's rows in the input's
\* order, and its columns are the input columns in their order followed by
\* those of OrderYear, OrderMonth, ShipDays that the input does not already
\* have, in that order; a date cell that fails to parse drops no row.
C1_RowsAndColumns ==
    EnrichReturned =>
        /\ NRows(df_enriched) = NRows(df_raw)
        /\ df_enriched.cols =
             df_raw.cols \o SelectSeq(DerivedCols, LAMBDA c : c \notin Range(df_raw.cols))
        /\ \A i \in 1..NRows(df_raw) :
             /\ DOMAIN df_enriched.rows[i] = Range(df_enriched.cols)
             /\ \A c \in Range(df_raw.cols) \ (needed_cols \cup Range(DerivedCols)) :
                  df_enriched.rows[i][c] = df_raw.rows[i][c]
             /\ df_enriched.rows[i]["Order Date"].kind = "date" =>
                  df_enriched.rows[i]["Order Date"].body
                    = df_raw.rows[i]["Order Date"].body

C1_Witness ==
    /\ EnrichReturned
    /\ NRows(df_raw) = 3
    /\ df_raw.cols = <<"Row ID", "Order Date", "Ship Date", "Segment", "Sales">>
    /\ isna(df_enriched.rows[2]["Order Date"])
    /\ df_enriched.rows[3]["Order Date"].kind = "date"

----------------------------------------------------------------------------
(* C2 *)

\* C2 as stated: every input column, Order Date and Ship Date included, has
\* the input's cell value in every row of the enriched table.
C2_AsStated ==
    EnrichReturned =>
        \A i \in 1..NRows(df_raw) : \A c \in Range(df_raw.cols) :
            df_enriched.rows[i][c] = df_raw.rows[i][c]

\* C2, amended: every input column other than Order Date, Ship Date and an
\* input column already named OrderYear, OrderMonth or ShipDays has the
\* input's cell value in every row; each Order Date and Ship Date cell holds
\* the date its raw text spells, or the missing marker; no input column is
\* removed, and the only added columns are the derived ones.
C2_OnlyDatesReplaced ==
    EnrichReturned =>
        /\ Range(df_enriched.cols) = Range(df_raw.cols) \cup Range(DerivedCols)
        /\ \A i \in 1..NRows(df_raw) :
             /\ \A c \in Range(df_raw.cols) \ (needed_cols \cup Range(DerivedCols)) :
                  df_enriched.rows[i][c] = df_raw.rows[i][c]
             /\ \A c \in needed_cols :
                  \/ df_enriched.rows[i][c] = Missing
                  \/ /\ df_enriched.rows[i][c].kind = "date"
                     /\ df_raw.rows[i][c].kind = "text"
                     /\ df_enriched.rows[i][c].body = df_raw.rows[i][c].body

C2_Witness ==
    /\ EnrichReturned
    /\ NRows(df_raw) = 2
    /\ "Sales" \in Range(df_raw.cols)
    /\ df_enriched.rows[1]["Order Date"] = Date(<<2023, 1, 5>>)
    /\ df_enriched.rows[2]["Ship Date"] = Missing

----------------------------------------------------------------------------
(* C3 *)

\* the k-th smallest of the values s[i], i in I, by rank
Kth(s, I, k) ==
    CHOOSE v \in {s[i] : i \in I} :
        /\ Cardinality({i \in I : s[i] < v}) < k
        /\ Cardinality({i \in I : s[i] <= v}) >= k

\* the median of the values s[i], i in I (I not empty)
MedianOf(s, I) ==
    LET n == Cardinality(I)
    IN  HalfSum(Kth(s, I, (n + 1) \div 2), Kth(s, I, n \div 2 + 1))

\* the whole days from a row's Order Date to its Ship Date
DaysOf(i) ==
    Ordinal(df_enriched.rows[i]["Ship Date"].body)
      - Ordinal(df_enriched.rows[i]["Order Date"].body)

ExampleDates ==
    << <<D(2023, 1, 5), D(2023, 1, 10)>>,
       <<D(2023, 2, 1), D(2023, 2, 3)>>,
       <<D(2023, 3, 15), Missing>> >>

\* C3: when some row's ShipDays can be computed, every such row has its own
\* day difference and every other row has the median of those differences;
\* the dates of the spec's example give ShipDays = [5, 2, 3.5].
C3_MedianImputation ==
    EnrichReturned =>
        LET I    == {i \in 1..NRows(df_enriched) : Computable(i)}
            days == [i \in I |-> DaysOf(i)]
        IN  /\ I # {} =>
                 \A i \in 1..NRows(df_enriched) :
                     df_enriched.rows[i]["ShipDays"] =
                        IF i \in I THEN Num(days[i]) ELSE MedianOf(days, I)
            /\ disk.dates = ExampleDates =>
                 Column(df_enriched, "ShipDays")
                   = << [kind |-> "num", body |-> <<5, 1>>],
                        [kind |-> "num", body |-> <<2, 1>>],
                        [kind |-> "num", body |-> <<7, 2>>] >>

C3_Witness ==
    /\ EnrichReturned
    /\ NRows(df_enriched) = 4
    /\ Computable(1) /\ Computable(2) /\ ~Computable(3) /\ Computable(4)
    /\ df_enriched.rows[1]["ShipDays"] = Num(5)
    /\ df_enriched.rows[2]["ShipDays"] = Num(2)
    /\ df_enriched.rows[3]["ShipDays"] = Num(2)
    /\ df_enriched.rows[4]["ShipDays"] = Num(2)

----------------------------------------------------------------------------
(* C4 *)

\* C4 as stated: when the table has rows and no row's ShipDays can be
\* computed, enrichment fails and returns no table.
C4_AllMissingFails ==
    ( /\ Did("add_feature_engineering")
      /\ needed_cols \subseteq Range(df_raw.cols)
      /\ NRows(df_raw) > 0
      /\ \A i \in 1..NRows(df_raw) :
            \/ to_datetime(df_raw.rows[i]["Order Date"]) = Missing
            \/ to_datetime(df_raw.rows[i]["Ship Date"]) = Missing )
    => (EnrichFailed /\ df_enriched = NoTable)

----------------------------------------------------------------------------
(* C5 *)

\* C5: when the raw table lacks Order Date, Ship Date or both, enrichment
\* stops the run with an error that names exactly the missing required
\* columns and returns no table; otherwise it does not fail.
C5_SchemaError ==
    Did("add_feature_engineering") =>
        IF needed_cols \subseteq Range(df_raw.cols)
        THEN ~EnrichFailed /\ screen.missing = {}
        ELSE /\ EnrichFailed
             /\ screen.error = "Feature engineering gagal"
             /\ screen.missing = {c \in {"Order Date", "Ship Date"} :
                                     \A j \in 1..Len(df_raw.cols) : df_raw.cols[j] # c}
             /\ df_enriched = NoTable

C5_Witness ==
    /\ EnrichFailed
    /\ df_raw.cols = <<"Order Date", "Segment">>
    /\ screen.missing = {"Ship Date"}
    /\ df_enriched = NoTable

----------------------------------------------------------------------------
(* C6 *)

\* the enriched table with only the columns that are kept
Kept(t, drop_cols, target_col) ==
    LET keep(c) == c \notin Range(drop_cols) /\ c # target_col
    IN  [cols |-> SelectSeq(t.cols, keep),
         rows |-> [i \in 1..NRows(t) |->
                     [c \in {x \in Range(t.cols) : keep(x)} |-> t.rows[i][c]]]]

\* C6: the table given to the predictor has exactly the enriched columns that
\* are neither in drop_cols nor target_col, in the enriched order, with every
\* row and cell unchanged, whether or not the names exist; it never contains
\* target_col, it equals the table the expander showed for the same
\* arguments, and selecting again from it changes nothing.
C6_SelectedInputs ==
    /\ pc \in {"button", "waiting", "predict", "assign", "render", "done"} =>
          X_for_model = Kept(df_enriched, artifact.drop_cols, artifact.target_col)
    /\ Did("prepare_features") =>
          /\ X_pred = Kept(df_enriched, artifact.drop_cols, artifact.target_col)
          /\ NRows(X_pred) = NRows(df_enriched)
          /\ artifact.target_col \notin Range(X_pred.cols)
          /\ X_pred = X_for_model
          /\ prepare_features(X_pred, artifact.drop_cols, artifact.target_col) = X_pred

C6_Witness ==
    /\ pc = "predict"
    /\ artifact.drop_cols = <<"Customer ID", "Row ID", "Row ID">>
    /\ artifact.target_col = "Profit"
    /\ NRows(df_enriched) = 2
    /\ X_pred.cols = <<"Order Date", "Ship Date", "Segment", "Sales",
                       "OrderYear", "OrderMonth", "ShipDays">>

----------------------------------------------------------------------------
(* C7 *)

----------------------------------------------------------------------------
(* C8 *)

\* the prediction column's name that the claim gives for each mode
ExpectedName ==
    IF mode = "Klasifikasi Segment" THEN "Predicted Segment"
    ELSE IF artifact.target_col = "Sales" THEN "Predicted Sales"
    ELSE IF artifact.target_col = "Segment" THEN "Predicted Segment"
    ELSE "Predicted Profit"

----------------------------------------------------------------------------
(* C9 *)

StepOrder ==
    <<"load_dataset", "add_feature_engineering", "load_artifact",
      "prepare_features", "predict", "render">>

\* C9: the steps of a run are an initial part of the order dataset load,
\* enrichment, artifact load, feature selection, predict, render; a run
\* stopped by a failed load or enrichment shows that step's error and has
\* run nothing after it; the predictor runs only after the button was
\* pressed and the three steps before it succeeded, and at most once; a
\* failure in the prediction step ends the run with its error shown.
C9_StepOrder ==
    /\ Len(steps) <= Len(StepOrder)
    /\ \A i \in 1..Len(steps) : steps[i] = StepOrder[i]
    /\ pc = "stopped" =>
          /\ screen.error =
               CASE Len(steps) = 1 -> "Gagal load dataset"
                 [] Len(steps) = 2 -> "Feature engineering gagal"
                 [] Len(steps) = 3 -> "Gagal load PKL"
                 [] OTHER          -> "none"
          /\ screen.output = NoTable
    /\ screen.error \in {"Gagal load dataset", "Feature engineering gagal",
                         "Gagal load PKL"} => pc = "stopped"
    /\ Did("predict") =>
          /\ clicked
          /\ df_raw # NoTable
          /\ df_enriched # NoTable
          /\ artifact # NoArtifact
          /\ screen.error \in {"", "Error saat prediksi"}
    /\ screen.error = "Error saat prediksi" =>
          /\ pc = "done"
          /\ Did("predict")
          /\ ~Did("render")

C9_Witness ==
    /\ pc = "done"
    /\ clicked
    /\ steps = <<"load_dataset", "add_feature_engineering", "load_artifact",
                 "prepare_features", "predict">>
    /\ screen.error = "Error saat prediksi"
    /\ preds = <<>>

----------------------------------------------------------------------------
(* C10 *)

\* C10 as stated: a file that exists and is valid UTF-8 is loaded with its
\* text decoded as UTF-8; a path that does not exist, or a file that no
\* encoding parses, stops the run with the dataset error.
C10_Utf8First ==
    Did("load_dataset") =>
        /\ (disk.exists /\ disk.wellformed /\ DecodeUtf8(disk.payload).ok) =>
              df_raw = read_csv(disk, "utf-8").table
        /\ (~disk.exists \/ ~disk.wellformed) =>
              (pc = "stopped" /\ screen.error = "Gagal load dataset")

====
